---- MODULE Spec2Model ----
(***************************************************************************)
(* Model of the analysis engine of scripts/compute_flr.py: compute_lppl    *)
(* (the LPPL grid search and its report) and compute_csd (rolling AR(1),   *)
(* rolling variance, Kendall's tau and the status label), and the part of  *)
(* main that calls them on one price series and builds the regime score.   *)
(*                                                                         *)
(* Real numbers are fixed point integers:                                  *)
(*   R^2 and AR(1) values   in units of 1e-5  (0.7 is 70000)               *)
(*   the exponent m         in units of 1e-3  (0.33 is 330)                *)
(* The floating point kernels (the least squares solve at one grid point,  *)
(* the Gaussian detrender, np.corrcoef) are not computed: their results    *)
(* are inputs, drawn from small sets of representative values.             *)
(* compute_csd is modelled at the scale of its window: the residual series *)
(* has a handful of points and the window two or three of them. Where one  *)
(* price series feeds both functions (main), n is its length as            *)
(* compute_lppl sees it and residuals is that same series at the scale of  *)
(* compute_csd.                                                            *)
(***************************************************************************)
EXTENDS Integers, Sequences, FiniteSets, TLC

VARIABLES
    n,            \* len(prices)
    entries,      \* logger.entries
    bad_price,    \* the last price of the series is zero or negative
    \* compute_lppl
    pc,           \* position of compute_lppl: idle, grid, after, done
    lookback,     \* min(500, n)
    tcI, mI, omI, phI,   \* positions of the four nested loops (1-based)
    best_fit,     \* None or Some([tc, m, omega, r2])
    best_r2,
    best_coeffs,  \* history: the coefficients B, C fitted at the point in best_fit
    visited,      \* number of grid points whose loop body has run
    first_max,    \* history: the first point, among those the search may keep, with
                  \* the highest R^2 so far
    tie_seen,     \* history: a later point has had the same R^2 as first_max
    outcome,      \* history: what happened at the grid point just visited
    valid_r2,     \* history: the highest R^2 of a point meeting every validity constraint
    lppl,         \* None or Some(the record returned by compute_lppl)
    \* compute_csd
    window,       \* the parameter window
    residuals,    \* prices - trend, a sequence of length n (index i is residuals[i+1])
    corr,         \* corr[i]: what np.corrcoef(w_curr, w_lag)[0, 1] yields at index i
    cpc,          \* position of compute_csd: idle, done
    ar1,          \* the array ar1, None for nan
    variance,     \* the array variance, None for nan
    tau,          \* the local tau, a fraction [num, den]
    current_ar1,  \* the local current_ar1, before rounding
    csd,          \* None or Some(the record returned by compute_csd)
    \* main, the regime score
    latest_net_liq,   \* the local latest_net_liq, in $B
    scores,       \* the locals ar1_score, tau_score, lppl_score, liq_score
    composite,    \* the local composite, before rounding
    regime        \* None or Some(the record regime)

lpplVars == <<pc, lookback, tcI, mI, omI, phI, best_fit, best_r2, best_coeffs,
              visited, first_max, tie_seen, outcome, valid_r2, lppl>>
csdVars == <<window, residuals, corr, cpc, ar1, variance, tau, current_ar1, csd>>
mainVars == <<latest_net_liq, scores, composite, regime>>
vars == <<n, entries, bad_price, lpplVars, csdVars, mainVars>>

----------------------------------------------------------------------------
(* Python's None / a value, as a sequence of length 0 or 1. *)
None == <<>>
Some(x) == <<x>>
IsNone(o) == Len(o) = 0
Val(o) == o[1]

Abs(x) == IF x < 0 THEN -x ELSE x
Min(a, b) == IF a < b THEN a ELSE b
Max(a, b) == IF a > b THEN a ELSE b

----------------------------------------------------------------------------
(* Bounds of the model. *)

\* how many of the tc offsets, of the exponents m and of the phases phi the
\* model walks through (the first ones of each list); every omega is walked.
MaxTc == 2
MaxM == 2
MaxPhi == 2
\* datetime.now() is one of the days 0..MaxDay
MaxDay == 1

----------------------------------------------------------------------------
(* compute_lppl: constants of the code. *)

MinPoints == 100          \* if n < 100
MaxLookback == 500        \* min(500, n)
TcStart == 10             \* range(lookback + 10, lookback + 250, 20)
TcStop == 250
TcStep == 20
R2Min == 70000            \* 0.7
ConfSpan == 25000         \* 0.25
ConfMax == 100
NegInf == -1              \* -np.inf: below every R^2 of the model
MLow == 100               \* 0.1 < m < 0.9
MHigh == 900
OmegaLow == 6             \* 6 < omega < 13
OmegaHigh == 13
TcDaysLow == 5            \* 5 < tc_days < 365
TcDaysHigh == 365

\* len(range(lookback + 10, lookback + 250, 20)) = 12
NumTc == (TcStop - TcStart + TcStep - 1) \div TcStep
Ms == <<200, 330, 500, 670, 800>>
Omegas == <<6, 7, 8, 9, 10, 11, 12>>
\* phi = 0, pi/2, pi, 3pi/2, as a number of quarter turns
Phis == <<0, 1, 2, 3>>

TcCount == Min(MaxTc, NumTc)
MCount == Min(MaxM, Len(Ms))
OmegaCount == Len(Omegas)
PhiCount == Min(MaxPhi, Len(Phis))

Tc_FromZero(i, lb) == TcStart + TcStep * (i - 1)
Tc(i, lb) == lb + TcStart + TcStep * (i - 1)

\* the lengths of the price series the model feeds to compute_lppl
LpplLengths == {MinPoints - 1, MinPoints, MaxLookback + 1}

(* The least squares fit at one grid point: the solve is singular, or it    *)
(* yields B and C (arbitrary units) and the R^2 (1e-5) of that fit: B = 0   *)
(* with a high R^2, or B < 0 with |C| below, at and above |B| and an R^2 at *)
(* 0.7 and above it.                                                        *)
FitC == {-3, -1, 2}
FitR2 == {70000, 80104, 97003}
Singular == [singular |-> TRUE, B |-> 0, C |-> 0, r2 |-> 0]
Fitted(B, C, r2) == [singular |-> FALSE, B |-> B, C |-> C, r2 |-> r2]
Fits ==
    {Singular} \cup {Fitted(0, C, 97003) : C \in FitC}
               \cup {Fitted(-2, C, r2) : C \in FitC, r2 \in FitR2}

(* With a zero or negative price in the window, np.log yields -inf or nan   *)
(* there (a warning, no exception): the solve, unless singular, yields      *)
(* non-finite coefficients, which the test on B and C lets through (every   *)
(* comparison with nan is false) or not, and ss_tot is nan, so that         *)
(* `ss_tot > 0` is false and r2 = 0.                                        *)
BadPriceFits == {Singular, Fitted(0, -1, 0), Fitted(-2, -1, 0)}

\* the fits a grid point can have on the series at hand
FitsOf(bad) == IF bad THEN BadPriceFits ELSE Fits

----------------------------------------------------------------------------
(* compute_lppl: the steps of the code. *)

\* np.any(dt <= 0) with dt = tc - t, t = 0 .. lookback-1
AnyDtNonPositive(tc, lb) == tc - (lb - 1) <= 0

\* what the except clause around np.linalg.solve does with a singular system
OnSingular_Raises == "raise"
OnSingular == "continue"

\* if B >= 0 or abs(C) > abs(B): continue
Rejected(B, C) == B >= 0 \/ Abs(C) > Abs(B)

\* if r2 > best_r2 and r2 > 0.7
Improves_OnTie(r2, best) == r2 >= best /\ r2 > R2Min
Improves(r2, best) == r2 > best /\ r2 > R2Min

\* tc_days = best_fit["tc"] - lookback + 1
TcDays_FromWindowLength(tc, lb) == tc - lb
TcDays(tc, lb) == tc - lb + 1

TcDaysOk(d) == TcDaysLow < d /\ d < TcDaysHigh

\* is_bubble = all([0.1 < m < 0.9, 6 < omega < 13, 5 < tc_days < 365])
IsBubble_OmegaClosed(bf, d) ==
    /\ MLow < bf.m /\ bf.m < MHigh
    /\ OmegaLow <= bf.omega /\ bf.omega <= OmegaHigh
    /\ TcDaysOk(d)
IsBubble(bf, d) ==
    /\ MLow < bf.m /\ bf.m < MHigh
    /\ OmegaLow < bf.omega /\ bf.omega < OmegaHigh
    /\ TcDaysOk(d)

\* int(min(100, max(0, (r2 - 0.7) / 0.25 * 100))) if is_bubble else 0
Confidence_Unclamped(r2, bubble) ==
    IF bubble THEN ((r2 - R2Min) * 100) \div ConfSpan ELSE 0
Confidence(r2, bubble) ==
    IF bubble
    THEN Min(ConfMax * ConfSpan, Max(0, (r2 - R2Min) * 100)) \div ConfSpan
    ELSE 0

\* round(x, 4) of the fraction num/den (den > 0): the nearest multiple of 1e-4,
\* ties to even, in units of 1e-4
RoundFrac4(num, den) ==
    LET q == (num * 10000) \div den
        r == (num * 10000) % den
    IN  IF 2 * r < den THEN q
        ELSE IF 2 * r > den THEN q + 1
        ELSE IF q % 2 = 0 THEN q ELSE q + 1

\* round(x, 4) of a value in units of 1e-5, in units of 1e-4
Round4(x) ==
    LET q == x \div 10
        r == x % 10
    IN  IF r < 5 THEN q
        ELSE IF r > 5 THEN q + 1
        ELSE IF q % 2 = 0 THEN q ELSE q + 1

_lppl_result(is_bubble, confidence, tc_days, tc_date, r2, omega, m, status) ==
    [is_bubble |-> is_bubble, confidence |-> confidence, tc_days |-> tc_days,
     tc_date |-> tc_date, r2 |-> r2, omega |-> omega, m |-> m, status |-> status]

Log(level, msg) == Append(entries, <<level, msg>>)

\* the loop counters after one more turn of the innermost loop
LastPoint == phI = PhiCount /\ omI = OmegaCount /\ mI = MCount /\ tcI = TcCount

Advance ==
    IF phI < PhiCount THEN
        /\ phI' = phI + 1
        /\ UNCHANGED <<omI, mI, tcI>>
    ELSE IF omI < OmegaCount THEN
        /\ phI' = 1 /\ omI' = omI + 1
        /\ UNCHANGED <<mI, tcI>>
    ELSE IF mI < MCount THEN
        /\ phI' = 1 /\ omI' = 1 /\ mI' = mI + 1
        /\ UNCHANGED tcI
    ELSE IF tcI < TcCount THEN
        /\ phI' = 1 /\ omI' = 1 /\ mI' = 1 /\ tcI' = tcI + 1
    ELSE UNCHANGED <<phI, omI, mI, tcI>>

\* history: the point may be kept by the search (a fit with B < 0, |C| not
\* above |B| and R^2 > 0.7)
Survives(f) ==
    /\ ~f.singular
    /\ f.B < 0 /\ Abs(f.C) <= Abs(f.B)
    /\ f.r2 > 70000

\* history: m in (0.1, 0.9), omega in (6, 13) and 5 < tc_days < 365, tc_days
\* counted from the last point of the window (index lookback - 1)
InRanges(pt, lb) ==
    /\ 100 < pt.m /\ pt.m < 900
    /\ 6 < pt.omega /\ pt.omega < 13
    /\ 5 < pt.tc - (lb - 1) /\ pt.tc - (lb - 1) < 365

\* history: every validity constraint of a bubble holds at the point
FullyValid(pt, f, lb) ==
    /\ ~f.singular
    /\ f.B < 0 /\ Abs(f.C) < Abs(f.B)
    /\ f.r2 > 70000
    /\ InRanges(pt, lb)

LpplIdle ==
    /\ pc = "idle"
    /\ lookback = 0
    /\ tcI = 1 /\ mI = 1 /\ omI = 1 /\ phI = 1
    /\ best_fit = None
    /\ best_r2 = NegInf
    /\ best_coeffs = None
    /\ visited = 0
    /\ first_max = None
    /\ tie_seen = FALSE
    /\ outcome = "none"
    /\ valid_r2 = NegInf
    /\ lppl = None

\* lines 498-513: the call, up to the grid search
Call ==
    /\ pc = "idle"
    /\ entries' = Log("INFO", "Computing LPPL")
    /\ IF n < MinPoints
       THEN /\ lppl' = Some(_lppl_result(FALSE, 0, None, None, None, None, None,
                                         "Insufficient data"))
            /\ pc' = "done"
            /\ UNCHANGED <<lookback, best_fit, best_r2>>
       ELSE /\ lookback' = Min(MaxLookback, n)
            /\ best_fit' = None
            /\ best_r2' = NegInf
            /\ pc' = "grid"
            /\ UNCHANGED lppl
    /\ UNCHANGED <<n, tcI, mI, omI, phI, best_coeffs, visited, first_max, tie_seen,
                   outcome, valid_r2>>
    /\ UNCHANGED <<bad_price, csdVars, mainVars>>

\* lines 515-545: the body of the innermost loop at one grid point, the fit
\* there being f
Visit(f) ==
    LET tc == Tc(tcI, lookback)
        pt == [tc |-> tc, m |-> Ms[mI], omega |-> Omegas[omI]]
        skip == AnyDtNonPositive(tc, lookback)
        raise == ~skip /\ f.singular /\ OnSingular # "continue"
        pass == ~skip /\ ~f.singular /\ ~Rejected(f.B, f.C)
        r2 == f.r2
        better == pass /\ Improves(r2, best_r2)
    IN  /\ visited' = visited + 1
        /\ IF better
           THEN /\ best_r2' = r2
                /\ best_fit' = Some([tc |-> tc, m |-> Ms[mI], omega |-> Omegas[omI],
                                     r2 |-> r2])
                /\ best_coeffs' = Some([B |-> f.B, C |-> f.C])
           ELSE UNCHANGED <<best_fit, best_r2, best_coeffs>>
        /\ first_max' =
              IF Survives(f) /\ (IsNone(first_max) \/ r2 > Val(first_max).r2)
              THEN Some([tc |-> tc, m |-> Ms[mI], omega |-> Omegas[omI], r2 |-> r2])
              ELSE first_max
        /\ tie_seen' =
              (tie_seen \/ (Survives(f) /\ ~IsNone(first_max) /\ r2 = Val(first_max).r2))
        /\ outcome' =
              IF f.singular THEN "singular"
              ELSE IF f.B >= 0 \/ Abs(f.C) > Abs(f.B) THEN "violation"
              ELSE "fitted"
        /\ valid_r2' =
              IF FullyValid(pt, f, lookback) THEN Max(valid_r2, r2)
              ELSE valid_r2
        /\ IF raise
           THEN \* the exception reaches the outer handler (lines 560-562)
                /\ entries' = Log("ERROR", "LPPL error")
                /\ lppl' = Some(_lppl_result(FALSE, 0, None, None, None, None, None,
                                             "Error"))
                /\ pc' = "done"
                /\ UNCHANGED <<tcI, mI, omI, phI>>
           ELSE /\ Advance
                /\ pc' = IF LastPoint THEN "after" ELSE "grid"
                /\ UNCHANGED <<lppl, entries>>
        /\ UNCHANGED <<n, lookback>>
        /\ UNCHANGED <<bad_price, csdVars, mainVars>>

GridStep ==
    /\ pc = "grid"
    /\ \E f \in FitsOf(bad_price) : Visit(f)

\* lines 547-559: the report, datetime.now() being the day now
Report(now) ==
    IF IsNone(best_fit) \/ Val(best_fit).r2 < R2Min
    THEN /\ lppl' = Some(_lppl_result(FALSE, 0, None, None, None, None, None,
                                      "No bubble signature"))
         /\ UNCHANGED entries
    ELSE LET bf == Val(best_fit)
             tc_days == TcDays(bf.tc, lookback)
             is_bubble == IsBubble(bf, tc_days)
             confidence == Confidence(bf.r2, is_bubble)
             tc_date == IF TcDaysOk(tc_days) THEN Some(now + tc_days) ELSE None
         IN  /\ entries' = Log("SUCCESS", "LPPL complete")
             /\ lppl' = Some(_lppl_result(is_bubble, confidence,
                                IF TcDaysOk(tc_days) THEN Some(tc_days) ELSE None,
                                tc_date, Some(Round4(bf.r2)), Some(bf.omega),
                                Some(bf.m),
                                IF is_bubble THEN "BUBBLE DETECTED"
                                             ELSE "No bubble signature"))

Finish ==
    /\ pc = "after"
    /\ \E now \in 0..MaxDay : Report(now)
    /\ pc' = "done"
    /\ UNCHANGED <<n, lookback, tcI, mI, omI, phI, best_fit, best_r2, best_coeffs,
                   visited, first_max, tie_seen, outcome, valid_r2>>
    /\ UNCHANGED <<bad_price, csdVars, mainVars>>

----------------------------------------------------------------------------
(* compute_csd: constants of the code and bounds of the model. *)

One == 100000             \* 1.0, the bound of np.clip
ArCritical == 80000       \* current_ar1 > 0.8
ArElevated == 70000       \* current_ar1 > 0.7
ArRising == 60000         \* current_ar1 > 0.6

\* The code computes tau over the last 100 defined values (lines 461-462); the
\* model computes it over the last TauLookback, so that every sequence of
\* that length can be enumerated.
TauLookback == 3
\* the series have 0..MaxN points, the parameter window is 2..MaxWindow (with
\* window < 2 the unbiased variance divides by zero)
MaxN == 7
MaxWindow == 3
Windows == 2..MaxWindow

\* the values of the residual series
ResidualValues == {0, 1}
\* what np.corrcoef yields (1e-5): a negative value, 0.7 itself, a value that
\* rounds to 0.7 from above, one above 0.8, and one that overshoots 1.0 by
\* floating point error
CorrValues == {-30000, 70000, 70004, 80006, 100001}

----------------------------------------------------------------------------
(* compute_csd: the steps of the code. *)

RECURSIVE Sum(_)
Sum(s) == IF Len(s) = 0 THEN 0 ELSE s[1] + Sum(Tail(s))

RECURSIVE SumSq(_)
SumSq(s) == IF Len(s) = 0 THEN 0 ELSE s[1] * s[1] + SumSq(Tail(s))

\* the Python slice s[a:b] of a sequence, 0 <= a <= b <= len(s)
Slice(s, a, b) == [k \in 1..(b - a) |-> s[a + k]]

\* len(w)^2 times the population variance of w
SumSqDev(w) == Len(w) * SumSq(w) - Sum(w) * Sum(w)

\* np.std(w) > 0
StdPositive(w) == SumSqDev(w) > 0

\* np.var(w, ddof=1), in units of 1e-5
SampleVar(w) == (SumSqDev(w) * One) \div (Len(w) * (Len(w) - 1))

\* np.clip(x, -1, 1)
Clip(x) == Max(-One, Min(One, x))

\* np.corrcoef(w_curr, w_lag)[0, 1] at index i
Corrcoef(c, i) == IF i \in DOMAIN c THEN Some(c[i]) ELSE None

\* range(window + 1, n)
Ar1Range_Late(w, len) == (w + 2)..(len - 1)
Ar1Range(w, len) == (w + 1)..(len - 1)

\* range(window, n)
VarRange(w, len) == w..(len - 1)

\* lines 446-451: the array ar1
RollingAr1(res, w, c) ==
    [k \in 1..Len(res) |->
        LET i == k - 1
        IN  IF i \in Ar1Range(w, Len(res))
               /\ StdPositive(Slice(res, i - w, i))
               /\ StdPositive(Slice(res, i - w - 1, i - 1))
               /\ ~IsNone(Corrcoef(c, i))
            THEN Some(Clip(Val(Corrcoef(c, i))))
            ELSE None]

\* lines 454-456: the array variance
RollingVar(res, w) ==
    [k \in 1..Len(res) |->
        LET i == k - 1
        IN  IF i \in VarRange(w, Len(res))
            THEN Some(SampleVar(Slice(res, i - w, i)))
            ELSE None]

\* a[~np.isnan(a)]
RECURSIVE NotNan(_)
NotNan(a) ==
    IF Len(a) = 0 THEN <<>>
    ELSE IF IsNone(a[1]) THEN NotNan(Tail(a))
    ELSE <<Val(a[1])>> \o NotNan(Tail(a))

\* if diff > 0: concordant += 1
IsConcordant_WithTies(diff) == diff >= 0
IsConcordant(diff) == diff > 0

\* elif diff < 0: discordant += 1
IsDiscordant(diff) == ~IsConcordant(diff) /\ diff < 0

Zero == [num |-> 0, den |-> 1]

\* lines 460-470: tau of the values `recent`, the fraction
\* (concordant - discordant) / pairs
KendallTau(recent) ==
    LET L == Len(recent)
        ij == {p \in (1..L) \X (1..L) : p[1] < p[2]}
        diff(p) == (p[2] - p[1]) * (recent[p[2]] - recent[p[1]])
        concordant == Cardinality({p \in ij : IsConcordant(diff(p))})
        discordant == Cardinality({p \in ij : IsDiscordant(diff(p))})
        pairs == (L * (L - 1)) \div 2
    IN  IF pairs > 0 THEN [num |-> concordant - discordant, den |-> pairs]
        ELSE Zero

\* valid_ar1[-100:]
Recent_Oldest(valid) == SubSeq(valid, 1, TauLookback)
Recent(valid) == SubSeq(valid, Len(valid) - TauLookback + 1, Len(valid))

\* if len(valid_ar1) >= 100
EnoughForTau(valid) == Len(valid) >= TauLookback

\* float(valid[-1]) if len(valid) > 0 else 0
LastOrZero_DefaultOne(valid) == IF Len(valid) > 0 THEN valid[Len(valid)] ELSE One
LastOrZero(valid) == IF Len(valid) > 0 THEN valid[Len(valid)] ELSE 0

\* lines 476-479
Status_Inclusive(x) ==
    IF x >= ArCritical THEN "CRITICAL"
    ELSE IF x >= ArElevated THEN "ELEVATED"
    ELSE IF x >= ArRising THEN "RISING"
    ELSE "NORMAL"
Status(x) ==
    IF x > ArCritical THEN "CRITICAL"
    ELSE IF x > ArElevated THEN "ELEVATED"
    ELSE IF x > ArRising THEN "RISING"
    ELSE "NORMAL"

\* [None if np.isnan(x) else round(x, 4) for x in a]
RoundAll(a) ==
    [k \in 1..Len(a) |-> IF IsNone(a[k]) THEN None ELSE Some(Round4(Val(a[k])))]

CsdIdle ==
    /\ window = 2
    /\ residuals = <<>>
    /\ corr = <<>>
    /\ cpc = "idle"
    /\ ar1 = <<>>
    /\ variance = <<>>
    /\ tau = Zero
    /\ current_ar1 = 0
    /\ csd = None

\* the indices at which np.corrcoef has two slices of non-zero variance
CorrIdx(res, w) ==
    {i \in (w + 1)..(Len(res) - 1) :
        /\ \E a, b \in (i - w)..(i - 1) : res[a + 1] # res[b + 1]
        /\ \E a, b \in (i - w - 1)..(i - 2) : res[a + 1] # res[b + 1]}

\* lines 427-491: the whole call
ComputeCsd ==
    /\ cpc = "idle"
    /\ ar1' = RollingAr1(residuals, window, corr)
    /\ variance' = RollingVar(residuals, window)
    /\ LET valid_ar1 == NotNan(ar1')
       IN  /\ tau' = IF EnoughForTau(valid_ar1) THEN KendallTau(Recent(valid_ar1))
                      ELSE Zero
           /\ current_ar1' = LastOrZero(valid_ar1)
    /\ LET valid_var == NotNan(variance')
           current_var == LastOrZero(valid_var)
           status == Status(current_ar1')
       IN  csd' = Some([ar1 |-> RoundAll(ar1'),
                        variance |-> RoundAll(variance'),
                        current_ar1 |-> Round4(current_ar1'),
                        current_variance |-> Round4(current_var),
                        kendall_tau |-> RoundFrac4(tau'.num, tau'.den),
                        status |-> status])
    /\ entries' = entries \o <<<<"INFO", "Computing CSD indicators">>,
                               <<"SUCCESS", "CSD complete">>>>
    /\ cpc' = "done"
    /\ UNCHANGED <<n, window, residuals, corr>>
    /\ UNCHANGED <<bad_price, lpplVars, mainVars>>

----------------------------------------------------------------------------
(* main, lines 732-760: the two calls and the regime score. Scores are in   *)
(* units of 1e-2, the composite in units of 1e-4, net liquidity in $B.      *)

ScoreMax == 10000         \* 100
ArBase == 3000            \* (csd['current_ar1'] - 0.3) / 0.5 * 100, in 1e-4
ArSpan == 5000
TauShift == 5000          \* (csd['kendall_tau'] + 0.5) / 1.0 * 100, in 1e-4
TauSpan == 10000
LiqBase == 6500           \* (6500 - latest_net_liq) / 20
LiqSpan == 20
WAr1 == 35                \* ar1_score * 0.35
WTau == 20                \* tau_score * 0.20
WLppl == 25               \* lppl_score * 0.25
WLiq == 20                \* liq_score * 0.20
RegimeCritical == 700000  \* composite > 70
RegimeElevated == 550000  \* composite > 55
RegimeCaution == 400000   \* composite > 40
RegimeNormal == 250000    \* composite > 25

\* the values of latest_net_liq: far below, below, just below and at the
\* level where the composite of full AR1, full tau and confidence 40 is 70,
\* at 6500 and above it
NetLiqs == {4000, 5000, 5999, 6000, 6500, 7000}

\* min(100, max(0, x))
Clamp100(x) == Min(ScoreMax, Max(0, x))

Ar1Score(x) == Clamp100(((x - ArBase) * ScoreMax) \div ArSpan)
TauScore(t) == Clamp100(((t + TauShift) * ScoreMax) \div TauSpan)
\* lppl.get('confidence', 0) if lppl.get('is_bubble') else 0
LpplScore(r) == IF r.is_bubble THEN r.confidence * 100 ELSE 0
LiqScore(liq) == Clamp100(((LiqBase - liq) * 100) \div LiqSpan)

\* line 742
Composite_TauLpplSwapped(sc) ==
    sc.ar1_score * WAr1 + sc.tau_score * WLppl + sc.lppl_score * WTau
        + sc.liq_score * WLiq
Composite(sc) ==
    sc.ar1_score * WAr1 + sc.tau_score * WTau + sc.lppl_score * WLppl
        + sc.liq_score * WLiq

\* lines 744-748
RegimeStatus_Inclusive(c) ==
    IF c >= RegimeCritical THEN <<"CRITICAL", "STRONG SELL">>
    ELSE IF c >= RegimeElevated THEN <<"ELEVATED", "REDUCE RISK">>
    ELSE IF c >= RegimeCaution THEN <<"CAUTION", "HOLD">>
    ELSE IF c >= RegimeNormal THEN <<"NORMAL", "ACCUMULATE">>
    ELSE <<"FAVORABLE", "STRONG BUY">>
RegimeStatus(c) ==
    IF c > RegimeCritical THEN <<"CRITICAL", "STRONG SELL">>
    ELSE IF c > RegimeElevated THEN <<"ELEVATED", "REDUCE RISK">>
    ELSE IF c > RegimeCaution THEN <<"CAUTION", "HOLD">>
    ELSE IF c > RegimeNormal THEN <<"NORMAL", "ACCUMULATE">>
    ELSE <<"FAVORABLE", "STRONG BUY">>

\* round(x, 1) of a value x >= 0 given in units of 0.1 / per: the nearest
\* multiple of 0.1, ties to even, in units of 0.1
Round1(x, per) ==
    LET q == x \div per
        r == x % per
    IN  IF 2 * r < per THEN q
        ELSE IF 2 * r > per THEN q + 1
        ELSE IF q % 2 = 0 THEN q ELSE q + 1

NoScores == [ar1_score |-> 0, tau_score |-> 0, lppl_score |-> 0, liq_score |-> 0]

MainIdle ==
    /\ latest_net_liq = 0
    /\ scores = NoScores
    /\ composite = 0
    /\ regime = None

\* lines 736-760, once both calls have returned; latest_net_liq (line 709) is
\* read here for the first time
Regime ==
    /\ cpc = "done" /\ pc = "done"
    /\ IsNone(regime)
    /\ \E liq \in NetLiqs : latest_net_liq' = liq
    /\ scores' = [ar1_score |-> Ar1Score(Val(csd).current_ar1),
                  tau_score |-> TauScore(Val(csd).kendall_tau),
                  lppl_score |-> LpplScore(Val(lppl)),
                  liq_score |-> LiqScore(latest_net_liq')]
    /\ composite' = Composite(scores')
    /\ regime' = Some([composite |-> Round1(composite', 1000),
                       status |-> RegimeStatus(composite')[1],
                       signal |-> RegimeStatus(composite')[2],
                       components |->
                          [ar1_score |-> Round1(scores'.ar1_score, 10),
                           tau_score |-> Round1(scores'.tau_score, 10),
                           lppl_score |-> Round1(scores'.lppl_score, 10),
                           liquidity_score |-> Round1(scores'.liq_score, 10)]])
    /\ UNCHANGED <<n, entries, bad_price, lpplVars, csdVars>>

\* lines 733-734: compute_csd is called first, compute_lppl once it returned
MainLppl == cpc = "done" /\ (Call \/ GridStep \/ Finish)

\* main calls compute_csd with its default window: the smallest window of
\* the model
MainWindow == CHOOSE w \in Windows : \A v \in Windows : w <= v
\* the residuals of a series long enough for both functions
Alternating(k) == [i \in 1..k |-> i % 2]
\* what np.corrcoef yields along that series: the pattern p, repeated
CorrProfiles ==
    {<<100001, -30000, 70000>>, <<70004, 70000, 80006>>, <<-30000, 100001, 80006>>}
CorrAlong(res, w, p) ==
    [i \in CorrIdx(res, w) |-> p[(i % Len(p)) + 1]]

----------------------------------------------------------------------------
(* The specifications. *)

\* compute_lppl on a price series of one of the lengths LpplLengths
InitLppl ==
    /\ n \in LpplLengths
    /\ entries = <<>>
    /\ bad_price = FALSE
    /\ LpplIdle
    /\ CsdIdle
    /\ MainIdle

NextLppl == Call \/ GridStep \/ Finish

SpecLppl == InitLppl /\ [][NextLppl]_vars

\* compute_csd on every residual series of at most MaxN points
InitCsd ==
    /\ n \in 0..MaxN
    /\ entries = <<>>
    /\ window \in Windows
    /\ residuals \in [1..n -> ResidualValues]
    /\ corr \in [CorrIdx(residuals, window) -> CorrValues]
    /\ cpc = "idle"
    /\ ar1 = <<>>
    /\ variance = <<>>
    /\ tau = Zero
    /\ current_ar1 = 0
    /\ csd = None
    /\ bad_price = FALSE
    /\ LpplIdle
    /\ MainIdle

NextCsd == ComputeCsd

SpecCsd == InitCsd /\ [][NextCsd]_vars

\* compute_csd on the series of LongN points, long enough for tau to skip
\* undefined entries between the values it looks at
LongN == MaxN + 2
LongCorrValues == {-30000, 70004, 100001}
InitCsdLong ==
    /\ n = LongN
    /\ entries = <<>>
    /\ window = MainWindow
    /\ residuals \in [1..n -> ResidualValues]
    /\ corr \in [CorrIdx(residuals, window) -> LongCorrValues]
    /\ cpc = "idle"
    /\ ar1 = <<>>
    /\ variance = <<>>
    /\ tau = Zero
    /\ current_ar1 = 0
    /\ csd = None
    /\ bad_price = FALSE
    /\ LpplIdle
    /\ MainIdle

SpecCsdLong == InitCsdLong /\ [][NextCsd]_vars

\* main on one price series: too short for both functions, or long enough
\* for both; its last price may be zero or negative
InitMain ==
    /\ entries = <<>>
    /\ bad_price \in BOOLEAN
    /\ window = MainWindow
    /\ \/ /\ n = MinPoints - 1
          /\ residuals \in [1..MainWindow -> ResidualValues]
          /\ corr = <<>>
       \/ /\ n = MaxLookback + 1
          /\ residuals = Alternating(MaxN)
          /\ corr \in {CorrAlong(residuals, window, p) : p \in CorrProfiles}
    /\ cpc = "idle"
    /\ ar1 = <<>>
    /\ variance = <<>>
    /\ tau = Zero
    /\ current_ar1 = 0
    /\ csd = None
    /\ LpplIdle
    /\ MainIdle

NextMain == ComputeCsd \/ MainLppl \/ Regime

SpecMain == InitMain /\ [][NextMain]_vars

----------------------------------------------------------------------------
(* compute_lppl: the claims. *)

GridSize == TcCount * MCount * OmegaCount * PhiCount
Returned == pc = "done" /\ n >= MinPoints
NoSignature ==
    _lppl_result(FALSE, 0, None, None, None, None, None, "No bubble signature")

\* C1, as stated: whenever some grid point satisfies every validity constraint
\* (B < 0, |C| < |B|, R^2 > 0.7, m, omega and tc_days in range) the report has
\* is_bubble = true and carries the best such point's R^2; only when no grid
\* point satisfies them is a "no signature" report returned. It is stated for
\* the runs whose winner has |C| < |B|, in which the boundary |C| = |B| of C2
\* plays no part.
C1_BestOfAllValid ==
    (Returned /\ (IsNone(best_coeffs) \/ Abs(Val(best_coeffs).C) < Abs(Val(best_coeffs).B)))
    =>  LET r == Val(lppl)
        IN  /\ valid_r2 > NegInf => (r.is_bubble /\ r.r2 = Some(Round4(valid_r2)))
            /\ r.status = "No bubble signature" => valid_r2 = NegInf

\* C1, amended: the report is built from the winner of the search alone, the
\* first point of highest R^2 among the points with a fit, B < 0, |C| not above
\* |B| and R^2 > 0.7. Without a winner the report is "no signature"; with one,
\* is_bubble is true exactly when the winner's m, omega and tc_days are in
\* range, and the report carries the winner's R^2 (rounded), omega, m and
\* tc_days, whatever other points satisfy.
C1_ReportOfSearchWinner ==
    Returned =>
        LET r == Val(lppl)
        IN  IF IsNone(first_max) THEN r = NoSignature
            ELSE LET w == Val(first_max)
                     d == w.tc - (lookback - 1)
                 IN  /\ r.is_bubble = InRanges(w, lookback)
                     /\ r.status = IF InRanges(w, lookback) THEN "BUBBLE DETECTED"
                                   ELSE "No bubble signature"
                     /\ r.r2 = Some(Round4(w.r2))
                     /\ r.omega = Some(w.omega)
                     /\ r.m = Some(w.m)
                     /\ r.tc_days = IF 5 < d /\ d < 365 THEN Some(d) ELSE None

\* a point satisfying every constraint was visited, and the report, built from
\* a winner out of range, says "no signature"
C1_Witness ==
    /\ Returned
    /\ valid_r2 > NegInf
    /\ ~IsNone(first_max)
    /\ ~Val(lppl).is_bubble

\* C2, as stated: a grid point whose fit has B >= 0 or |C| >= |B| never becomes
\* best_fit (nor, through it, the report).
C2_BoundaryRejected ==
    ~IsNone(best_fit) =>
        LET c == Val(best_coeffs)
        IN  c.B < 0 /\ Abs(c.C) < Abs(c.B)

\* C3: a report with is_bubble = true comes from a winner with R^2 > 0.7, m in
\* (0.1, 0.9), omega in (6, 13) and 5 < tc_days < 365, tc_days being the
\* distance from the last point of the window (index lookback - 1) to tc.
C3_BubbleFromValidWinner ==
    (Returned /\ Val(lppl).is_bubble) =>
        /\ ~IsNone(best_fit)
        /\ LET w == Val(best_fit)
               r == Val(lppl)
               d == w.tc - (lookback - 1)
           IN  /\ w.r2 > R2Min
               /\ MLow < w.m /\ w.m < MHigh
               /\ OmegaLow < w.omega /\ w.omega < OmegaHigh
               /\ TcDaysLow < d /\ d < TcDaysHigh
               /\ r.tc_days = Some(d)
               /\ r.omega = Some(w.omega) /\ r.m = Some(w.m)
               /\ r.r2 = Some(Round4(w.r2))

C3_Witness == Returned /\ Val(lppl).is_bubble /\ Val(lppl).tc_days = Some(31)

\* C4: the grid is walked in a fixed order (tc outermost, then m, omega, phi),
\* and best_fit is the first point in that order with the highest R^2 among the
\* points that passed the filters with R^2 > 0.7: a later point with the same
\* R^2 does not replace it.
C4_FirstMaxWins ==
    /\ best_fit = first_max
    /\ pc = "grid" =>
          visited = (((tcI - 1) * MCount + (mI - 1)) * OmegaCount + (omI - 1))
                        * PhiCount + (phI - 1)

C4_Witness == pc = "after" /\ tie_seen /\ ~IsNone(best_fit)

\* C5: a singular system or a constraint violation at a grid point ends only
\* that point's turn: the walk goes on, visits every grid point (12 x 5 x 7 x 4
\* on the full lists), never stops before the report and returns an ordinary
\* report, no error.
C5_SearchNeverAborts ==
    /\ NumTc * Len(Ms) * Len(Omegas) * Len(Phis) = 12 * 5 * 7 * 4
    /\ pc = "grid" => visited < GridSize
    /\ (n >= MinPoints /\ pc \in {"after", "done"}) => visited = GridSize
    /\ pc # "done" => ENABLED NextLppl
    /\ pc = "done" =>
          /\ ~IsNone(lppl)
          /\ Val(lppl).status \in
                {"Insufficient data", "No bubble signature", "BUBBLE DETECTED"}
    /\ best_fit = first_max

\* the last grid point had a singular system, an earlier winner is kept and
\* the report is returned
C5_Witness ==
    /\ Returned
    /\ outcome = "singular"
    /\ visited = GridSize
    /\ ~IsNone(best_fit)
    /\ Val(lppl).is_bubble

\* C6, as stated: confidence is 0 without a bubble and exactly
\* clamp(0, 100, (R^2 - 0.7) / 0.25 * 100) of the winner's R^2 with one.
C6_ConfidenceIsClamp ==
    pc = "done" =>
        LET r == Val(lppl)
        IN  /\ ~r.is_bubble => r.confidence = 0
            /\ r.is_bubble =>
                  r.confidence * 25000 =
                      Min(100 * 25000, Max(0, (Val(best_fit).r2 - 70000) * 100))
            /\ 0 <= r.confidence /\ r.confidence <= 100
            /\ r.confidence > 0 => r.is_bubble

\* C6, amended: with a bubble, confidence is that clamp truncated to an integer.
C6_ConfidenceIsTruncatedClamp ==
    pc = "done" =>
        LET r == Val(lppl)
        IN  /\ ~r.is_bubble => r.confidence = 0
            /\ r.is_bubble =>
                  LET x == Min(100 * 25000, Max(0, (Val(best_fit).r2 - 70000) * 100))
                  IN  /\ r.confidence * 25000 <= x
                      /\ x < (r.confidence + 1) * 25000
            /\ 0 <= r.confidence /\ r.confidence <= 100
            /\ r.confidence > 0 => r.is_bubble

\* a bubble whose R^2 = 0.80104 gives 40.416, reported as 40
C6_Witness ==
    /\ pc = "done"
    /\ Val(lppl).is_bubble
    /\ Val(best_fit).r2 = 80104
    /\ Val(lppl).confidence = 40

----------------------------------------------------------------------------
(* compute_csd: the claims. *)

\* the residuals at the indices a .. b-1 are all the same: zero variance
ConstantSlice(a, b) == \A j, k \in a..(b - 1) : residuals[j + 1] = residuals[k + 1]

\* the defined values of an array, in order
DefinedValues(a) ==
    LET d == SelectSeq(a, LAMBDA o : ~IsNone(o))
    IN  [k \in 1..Len(d) |-> Val(d[k])]

\* the latest defined value of the array ar1, 0 without one
LatestAr1 ==
    LET d == {k \in 1..Len(ar1) : ~IsNone(ar1[k])}
    IN  IF d = {} THEN 0
        ELSE Val(ar1[CHOOSE k \in d : \A j \in d : j <= k])

Reverse(q) == [k \in 1..Len(q) |-> q[Len(q) + 1 - k]]
Increasing(q) == \A j, k \in 1..Len(q) : j < k => q[j] < q[k]
Decreasing(q) == \A j, k \in 1..Len(q) : j < k => q[j] > q[k]

\* C7: the reported ar1 and variance have length n; ar1[i] is defined exactly
\* when i >= W + 1 and neither residual[i-W, i) nor residual[i-W-1, i-1) has
\* zero variance; variance[i] is defined exactly when i >= W.
C7_DefinedIndices ==
    cpc = "done" =>
        LET r == Val(csd)
        IN  /\ Len(r.ar1) = n /\ Len(r.variance) = n
            /\ \A i \in 0..(n - 1) :
                  /\ ~IsNone(r.ar1[i + 1]) <=>
                        /\ i >= window + 1
                        /\ ~ConstantSlice(i - window, i)
                        /\ ~ConstantSlice(i - window - 1, i - 1)
                  /\ ~IsNone(r.variance[i + 1]) <=> i >= window

\* an index past the window is undefined for a zero variance slice, the first
\* index past the window is defined
C7_Witness ==
    /\ cpc = "done"
    /\ n >= window + 3
    /\ ~IsNone(Val(csd).ar1[window + 2])
    /\ \E i \in (window + 2)..(n - 1) : IsNone(Val(csd).ar1[i + 1])

\* C8: on a series of fewer than window + 1 points compute_csd returns (it has
\* no step that can fail), with no defined ar1 value, current_ar1 = 0,
\* current_variance = 0 when no variance is defined, kendall_tau = 0 and the
\* status NORMAL.
C8_ShortSeries ==
    n < window + 1 =>
        /\ cpc = "idle" => ENABLED ComputeCsd
        /\ cpc = "done" =>
              LET r == Val(csd)
              IN  /\ \A k \in 1..Len(r.ar1) : IsNone(r.ar1[k])
                  /\ r.current_ar1 = 0
                  /\ (\A k \in 1..Len(r.variance) : IsNone(r.variance[k]))
                        => r.current_variance = 0
                  /\ r.kendall_tau = 0
                  /\ r.status = "NORMAL"

C8_Witness == cpc = "done" /\ n = window /\ Val(csd).status = "NORMAL"

\* the thresholds 0.8, 0.7, 0.6 on a value in units of 1e-4
StatusOfReported(x) ==
    IF x > 8000 THEN "CRITICAL"
    ELSE IF x > 7000 THEN "ELEVATED"
    ELSE IF x > 6000 THEN "RISING"
    ELSE "NORMAL"

\* C9, as stated: the status of a report is the label the thresholds assign to
\* the current_ar1 of that same report.
C9_StatusOfReportedValue ==
    cpc = "done" => Val(csd).status = StatusOfReported(Val(csd).current_ar1)

\* C9, amended: the status is the label the thresholds assign to the latest
\* defined ar1 value as computed (also when the last index is undefined), and
\* the report's current_ar1 is that value rounded to 4 decimals.
C9_StatusOfLatestValue ==
    cpc = "done" =>
        LET x == LatestAr1
            r == Val(csd)
        IN  /\ current_ar1 = x
            /\ r.current_ar1 = Round4(x)
            /\ r.status = "CRITICAL" <=> x > 80000
            /\ r.status = "ELEVATED" <=> (70000 < x /\ x <= 80000)
            /\ r.status = "RISING" <=> (60000 < x /\ x <= 70000)
            /\ r.status = "NORMAL" <=> x <= 60000

\* the last index is undefined, the latest defined value 0.70004 is ELEVATED
\* and is reported as 0.7
C9_Witness ==
    /\ cpc = "done"
    /\ n > 0 /\ IsNone(ar1[n])
    /\ current_ar1 = 70004
    /\ Val(csd).current_ar1 = 7000
    /\ Val(csd).status = "ELEVATED"

\* C10: over the latest TauLookback defined ar1 values, tau is +1 when they
\* increase (every pair concordant), -1 when they decrease, the tau of the
\* reversed sequence is -tau, and tau is always in [-1, 1].
C10_KendallTau ==
    cpc = "done" =>
        LET valid == DefinedValues(ar1)
            r == Val(csd)
        IN  /\ tau.den > 0
            /\ -tau.den <= tau.num /\ tau.num <= tau.den
            /\ -10000 <= r.kendall_tau /\ r.kendall_tau <= 10000
            /\ Len(valid) >= TauLookback =>
                  LET recent == SubSeq(valid, Len(valid) - TauLookback + 1, Len(valid))
                      back == KendallTau(Reverse(recent))
                  IN  /\ Increasing(recent) =>
                            (tau.num = tau.den /\ r.kendall_tau = 10000)
                      /\ Decreasing(recent) =>
                            (tau.num = -tau.den /\ r.kendall_tau = -10000)
                      /\ back.num * tau.den = -tau.num * back.den

\* more defined values than tau looks at, the latest ones increasing
C10_Witness ==
    /\ cpc = "done"
    /\ LET valid == DefinedValues(ar1)
       IN  /\ Len(valid) > TauLookback
           /\ Increasing(SubSeq(valid, Len(valid) - TauLookback + 1, Len(valid)))
    /\ Val(csd).kendall_tau = 10000

\* the indices (1-based) of the defined entries of the array ar1
DefinedAt == {k \in 1..Len(ar1) : ~IsNone(ar1[k])}

\* the indices of the TauLookback latest defined entries
LatestDefinedAt ==
    {k \in DefinedAt : Cardinality({j \in DefinedAt : j > k}) < TauLookback}

\* C11: with fewer than TauLookback defined ar1 values tau is 0; otherwise
\* tau is (concordant - discordant) / pairs over exactly the TauLookback
\* latest defined values, undefined entries skipped and older values ignored.
C11_TauOverLatestValues ==
    cpc = "done" =>
        LET d == LatestDefinedAt
            conc == Cardinality({p \in d \X d :
                        p[1] < p[2] /\ Val(ar1[p[1]]) < Val(ar1[p[2]])})
            disc == Cardinality({p \in d \X d :
                        p[1] < p[2] /\ Val(ar1[p[1]]) > Val(ar1[p[2]])})
            pairs == (TauLookback * (TauLookback - 1)) \div 2
        IN  IF Cardinality(DefinedAt) < TauLookback
            THEN tau.num = 0 /\ Val(csd).kendall_tau = 0
            ELSE /\ tau.num * pairs = (conc - disc) * tau.den
                 /\ 2 * (Val(csd).kendall_tau * pairs - (conc - disc) * 10000) <= pairs
                 /\ 2 * (Val(csd).kendall_tau * pairs - (conc - disc) * 10000) >= -pairs

\* more defined values than tau looks at, an undefined entry between two of
\* the latest ones, and a tau that is not 0
C11_Witness ==
    /\ cpc = "done"
    /\ Cardinality(DefinedAt) > TauLookback
    /\ \E j, k \in LatestDefinedAt : \E u \in (j + 1)..(k - 1) : IsNone(ar1[u])
    /\ tau.num # 0

----------------------------------------------------------------------------
(* main: the claims. *)

\* min(100, max(0, x)) on a score in units of 1e-2
Clamped(x) == IF x < 0 THEN 0 ELSE IF x > 10000 THEN 10000 ELSE x

\* C12: composite = 0.35 AR1score + 0.20 Tauscore + 0.25 LPPLscore
\* + 0.20 Liquidityscore, with AR1score = clamp((current_ar1 - 0.3) / 0.5 * 100),
\* Tauscore = clamp((tau + 0.5) * 100), LPPLscore = confidence if is_bubble
\* else 0, Liquidityscore = clamp((6500 - net_liquidity) / 20), on the
\* current_ar1 and kendall_tau of the CSD report; every sub-score and the
\* composite are in [0, 100]; the regime record carries them rounded to one
\* decimal; current_ar1 = 0.85, tau = 0.6, a bubble of confidence 80 and net
\* liquidity 5000 give 90.
C12_CompositeFormula ==
    /\ Composite([ar1_score |-> Ar1Score(8500), tau_score |-> TauScore(6000),
                  lppl_score |-> LpplScore([is_bubble |-> TRUE, confidence |-> 80]),
                  liq_score |-> LiqScore(5000)]) = 900000
    /\ ~IsNone(regime) =>
          LET a == Clamped((Val(csd).current_ar1 - 3000) * 2)
              t == Clamped(Val(csd).kendall_tau + 5000)
              l == IF Val(lppl).is_bubble THEN Val(lppl).confidence * 100 ELSE 0
              q == Clamped((6500 - latest_net_liq) * 5)
              r == Val(regime)
          IN  /\ scores = [ar1_score |-> a, tau_score |-> t, lppl_score |-> l,
                           liq_score |-> q]
              /\ composite = 35 * a + 20 * t + 25 * l + 20 * q
              /\ \A x \in {a, t, l, q} : 0 <= x /\ x <= 10000
              /\ 0 <= composite /\ composite <= 1000000
              /\ 2 * (r.composite * 1000 - composite) \in -1000..1000
              /\ 2 * (r.components.ar1_score * 10 - a) \in -10..10
              /\ 2 * (r.components.tau_score * 10 - t) \in -10..10
              /\ r.components.lppl_score * 10 = l
              /\ 2 * (r.components.liquidity_score * 10 - q) \in -10..10
              /\ 0 <= r.composite /\ r.composite <= 1000

\* a regime score whose four sub-scores are all strictly between 0 and 100
C12_Witness ==
    /\ ~IsNone(regime)
    /\ 0 < scores.ar1_score /\ scores.ar1_score < 10000
    /\ 0 < scores.tau_score /\ scores.tau_score < 10000
    /\ 0 < scores.lppl_score /\ scores.lppl_score < 10000
    /\ 0 < scores.liq_score /\ scores.liq_score < 10000

\* the five pairings of status and signal
Pairings ==
    {<<"CRITICAL", "STRONG SELL">>, <<"ELEVATED", "REDUCE RISK">>,
     <<"CAUTION", "HOLD">>, <<"NORMAL", "ACCUMULATE">>, <<"FAVORABLE", "STRONG BUY">>}

\* the breakpoints 70, 55, 40, 25 on a composite of which 100 is `hundred`
ClassOf(c, hundred) ==
    IF 100 * c > 70 * hundred THEN <<"CRITICAL", "STRONG SELL">>
    ELSE IF 100 * c > 55 * hundred THEN <<"ELEVATED", "REDUCE RISK">>
    ELSE IF 100 * c > 40 * hundred THEN <<"CAUTION", "HOLD">>
    ELSE IF 100 * c > 25 * hundred THEN <<"NORMAL", "ACCUMULATE">>
    ELSE <<"FAVORABLE", "STRONG BUY">>

\* C13, as stated: the status and the signal of the regime record are those
\* the breakpoints assign to the composite of that same record, in the five
\* pairings.
C13_StatusOfReportedComposite ==
    ~IsNone(regime) =>
        LET r == Val(regime)
        IN  /\ <<r.status, r.signal>> \in Pairings
            /\ <<r.status, r.signal>> = ClassOf(r.composite, 1000)

\* C13, amended: the status and the signal are those the breakpoints assign
\* to the composite as computed, before rounding, always in the five
\* pairings; the record's composite is that value rounded to one decimal.
C13_StatusOfComputedComposite ==
    ~IsNone(regime) =>
        LET r == Val(regime)
        IN  /\ <<r.status, r.signal>> \in Pairings
            /\ <<r.status, r.signal>> = ClassOf(composite, 1000000)
            /\ 2 * (r.composite * 1000 - composite) \in -1000..1000

\* a composite of 70.01 is CRITICAL and is recorded as 70.0
C13_Witness ==
    /\ ~IsNone(regime)
    /\ composite = 700100
    /\ Val(regime).composite = 700
    /\ Val(regime).status = "CRITICAL"

\* C14, as stated: on a series too short for compute_lppl (fewer than 100
\* points) the LPPL report is "Insufficient data", no error, and the LPPL
\* score is 0; on a series with no defined ar1 value the CSD report is
\* returned with current_ar1 = 0 and kendall_tau = 0, and the AR1 score and
\* the tau score are 0: the component adds nothing to the composite.
C14_ShortSeriesContributeNothing ==
    /\ (n < 100 /\ pc = "done") =>
           Val(lppl) = _lppl_result(FALSE, 0, None, None, None, None, None,
                                    "Insufficient data")
    /\ (cpc = "done" /\ DefinedAt = {}) =>
           (Val(csd).current_ar1 = 0 /\ Val(csd).kendall_tau = 0)
    /\ ~IsNone(regime) =>
          /\ n < 100 => scores.lppl_score = 0
          /\ DefinedAt = {} => (scores.ar1_score = 0 /\ scores.tau_score = 0)

\* C15, as stated: on a price series with a zero or negative price neither
\* function returns an ordinary report: compute_csd returns no report with a
\* status label and a tau, and compute_lppl ends in its error outcome, not in
\* "No bubble signature", "Insufficient data" or "BUBBLE DETECTED".
C15_MalformedRefused ==
    bad_price =>
        /\ cpc = "done" =>
               Val(csd).status \notin {"CRITICAL", "ELEVATED", "RISING", "NORMAL"}
        /\ pc = "done" => Val(lppl).status = "Error"

\* C16, as stated: a call of compute_csd changes nothing but its own locals
\* and its return value: logger.entries, the input series and the parameters
\* are after the call what they were before it.
C16_SideEffectFree ==
    [][ComputeCsd =>
          /\ entries' = entries
          /\ UNCHANGED <<n, window, residuals, corr, bad_price>>
          /\ UNCHANGED <<lpplVars, mainVars>>]_vars

\* the days a report of the model can name as tc_date
Dates == 0..(MaxDay + TcStart + TcStep * TcCount)

\* C17, as stated: the report of compute_lppl on a given price series is the
\* same whenever the run takes place. When the search is over the locals are
\* those of every run on this series, and the report that follows does not
\* depend on the day of the run: no two of the reports the function can
\* return from there differ in tc_date.
C17_SameReportAtAnyTime ==
    pc = "after" =>
        \A k1 \in Dates :
            (ENABLED (Finish /\ Val(lppl').tc_date = Some(k1))) =>
                \A k2 \in Dates :
                    (ENABLED (Finish /\ Val(lppl').tc_date = Some(k2))) => k1 = k2

\* C18: at every point of the grid dt = tc - t is positive for every t of the
\* window (the test on dt never rejects a point), m is in (0.1, 0.9) and
\* tc_days = tc - lookback + 1 is one of 11, 31, ..., 231; so, when the search
\* has a winner, the report has is_bubble = false exactly when the winner's
\* omega is 6.
C18_OnlyOmegaSixFails ==
    /\ \A i \in 1..NumTc :
          /\ Tc(i, lookback) - (lookback - 1) > 0
          /\ Tc(i, lookback) - lookback + 1 = 11 + 20 * (i - 1)
          /\ Tc(i, lookback) - lookback + 1 <= 231
    /\ NumTc = 12
    /\ \A k \in 1..Len(Ms) : 100 < Ms[k] /\ Ms[k] < 900
    /\ pc = "grid" => ~AnyDtNonPositive(Tc(tcI, lookback), lookback)
    /\ (Returned /\ ~IsNone(best_fit)) =>
          /\ ~Val(lppl).is_bubble <=> Val(best_fit).omega = 6
          /\ \E i \in 1..NumTc : Val(lppl).tc_days = Some(11 + 20 * (i - 1))

\* a winner with omega = 6 at the first tc, reported as no bubble
C18_Witness ==
    /\ Returned
    /\ ~IsNone(best_fit)
    /\ Val(best_fit).omega = 6
    /\ Val(lppl).status = "No bubble signature"
    /\ Val(lppl).tc_days = Some(11)

====
